---- MODULE Spec2Model ----
(***************************************************************************)
(* Discovery, aggregation and dispatch of MCP tools in the AgentCore       *)
(* agents: agent_with_aws_mcp.py ("aws"), agent_with_external_mcp.py       *)
(* ("external"), agent_with_official_aws_mcp.py ("official") and           *)
(* agent_with_gateway_official_mcp.py ("gateway").                         *)
(*                                                                         *)
(* A Python string that is split on '_' is modelled as a sequence of       *)
(* atoms: the atom Sep is the character '_', every other atom is a run of  *)
(* characters without '_'.  Concatenation is \o, so f"{a}_{b}" is          *)
(* a \o <<Sep>> \o b, and str.split / str.join / str.replace are computed  *)
(* on the atoms.                                                           *)
(***************************************************************************)
EXTENDS Integers, Sequences, FiniteSets, TLC

VARIABLES
    module,        \* which agent program runs: "aws", "external", "official", "gateway"
    config,        \* environment variables and persisted JSON documents it reads
    agent_tools,   \* agent.tools, the published tool list
    dpc,           \* position of the discovery pass inside invoke
    idx,           \* position of the for loop over the registry
    att,           \* per registry entry: the state of its connection attempt
    all_tools,     \* all_tools of the running pass
    cpc,           \* position of the dispatch call
    call,          \* locals of the dispatch call
    open_sessions, \* transport channels currently open
    run            \* position and locals of an entry point outside discovery and
                   \* dispatch: session handling of invoke, lambda_handler,
                   \* launcher selection, the filesystem tools

vars == <<module, config, agent_tools, dpc, idx, att, all_tools, cpc, call, open_sessions, run>>

(***************************************************************************)
(* Bounds of the exploration.                                              *)
(***************************************************************************)
MaxNameLen == 3

(***************************************************************************)
(* Python string and list primitives used by the agents.                   *)
(***************************************************************************)
Sep == "_"
None == "None"

RECURSIVE Split(_)
\* str.split('_')
Split(s) ==
    IF \A i \in 1..Len(s) : s[i] # Sep
    THEN <<s>>
    ELSE LET i == CHOOSE k \in 1..Len(s) :
                      s[k] = Sep /\ \A j \in 1..(k - 1) : s[j] # Sep
         IN  <<SubSeq(s, 1, i - 1)>> \o Split(SubSeq(s, i + 1, Len(s)))

RECURSIVE Join(_)
\* '_'.join(parts)
Join(parts) ==
    IF parts = <<>> THEN <<>>
    ELSE IF Len(parts) = 1 THEN parts[1]
    ELSE parts[1] \o <<Sep>> \o Join(Tail(parts))

\* parts[k:] with a 0-based k
SliceFrom(parts, k) == SubSeq(parts, k + 1, Len(parts))

\* pat in s
Contains(s, pat) ==
    \E i \in 1..(Len(s) - Len(pat) + 1) : SubSeq(s, i, i + Len(pat) - 1) = pat

RECURSIVE Replace(_, _, _)
\* s.replace(pat, rep), pat not empty
Replace(s, pat, rep) ==
    IF Len(s) < Len(pat) THEN s
    ELSE IF SubSeq(s, 1, Len(pat)) = pat
         THEN rep \o Replace(SubSeq(s, Len(pat) + 1, Len(s)), pat, rep)
         ELSE <<s[1]>> \o Replace(Tail(s), pat, rep)

\* the string whose '_'-delimited words are the atoms of ws
W(ws) == Join([i \in 1..Len(ws) |-> <<ws[i]>>])

\* f"{server_name}_{tool.name}"
Prefixed(server_name, name) == server_name \o <<Sep>> \o name

RECURSIVE Strings(_, _)
\* the strings of at most n atoms over the alphabet A
Strings(A, n) ==
    IF n = 0 THEN {<<>>}
    ELSE LET S == Strings(A, n - 1)
         IN  S \cup {<<a>> \o s : a \in A, s \in {t \in S : Len(t) = n - 1}}

RECURSIVE Count(_, _)
\* number of occurrences of x in the list l
Count(l, x) ==
    IF l = <<>> THEN 0
    ELSE (IF Head(l) = x THEN 1 ELSE 0) + Count(Tail(l), x)

Range(l) == {l[i] : i \in 1..Len(l)}

(***************************************************************************)
(* The server registries.                                                  *)
(***************************************************************************)
Entry(name, url, auth, path) ==
    [name |-> name, url |-> url, auth |-> auth, path |-> path]

AWS_MCP_SERVERS ==
    << Entry(W(<<"aws", "diagram">>),   "http://localhost:8000/mcp", None, None),
       Entry(W(<<"aws", "eks">>),       "http://localhost:8001/mcp", None, None),
       Entry(W(<<"aws", "terraform">>), "http://localhost:8002/mcp", None, None),
       Entry(W(<<"aws", "cost">>),      "http://localhost:8003/mcp", None, None),
       Entry(W(<<"github">>),           "http://localhost:8004/mcp", None, None) >>

MCP_SERVERS(cfg) ==
    << Entry(W(<<"filesystem">>), "http://localhost:8001/mcp", None, None),
       Entry(W(<<"database">>),   "http://localhost:8002/mcp", None, None),
       Entry(W(<<"agentcore", "gateway">>), cfg.GATEWAY_URL, cfg.GATEWAY_TOKEN, None) >>

\* aws_mcp_config.json: whether the file exists, and the servers it lists
ConfigFile(exists, servers) == [exists |-> exists, servers |-> servers]

OfficialTwo ==
    << Entry(W(<<"cdk">>),      None, None, "aws-mcp/cdk"),
         Entry(W(<<"cdk", "x">>), None, None, "aws-mcp/cdk_x") >>

OfficialNoPath ==
    << Entry(W(<<"cdk">>),      None, None, "aws-mcp/cdk"),
         Entry(W(<<"docs">>),     None, None, None),
         Entry(W(<<"cdk", "x">>), None, None, "aws-mcp/cdk_x") >>

ServerConfigs ==
    { ConfigFile(FALSE, <<>>),
      ConfigFile(TRUE, <<>>),
      ConfigFile(TRUE, OfficialTwo),
      ConfigFile(TRUE, OfficialNoPath) }

\* connect_to_gateway: the one endpoint of official_mcp_gateway_config.json
GatewayEntry(file) ==
    IF file.readable /\ {"gateway_url", "access_token"} \subseteq file.doc.keys
    THEN << Entry(<<"gateway">>, file.doc.gateway_url, file.doc.access_token, None) >>
    ELSE <<>>

\* the registry the aggregation pass of the module iterates over
Registry(m, cfg) ==
    CASE m = "aws"      -> AWS_MCP_SERVERS
      [] m = "external" -> MCP_SERVERS(cfg)
      [] m = "official" -> cfg.aws_mcp_config.servers
      [] OTHER          -> GatewayEntry(cfg.gateway_config)

\* the membership test looks at the first entry only
Has_FirstOnly(reg, server_name) == Len(reg) > 0 /\ reg[1].name = server_name

\* server_name in reg
Has(reg, server_name) == \E i \in 1..Len(reg) : reg[i].name = server_name

\* reg[server_name]
Get(reg, server_name) == reg[CHOOSE i \in 1..Len(reg) : reg[i].name = server_name]

(***************************************************************************)
(* What the tool servers advertise: the lists that list_tools can return   *)
(* at an address.  The servers under mcp-servers/ advertise their own      *)
(* tools (two of each are kept); the servers that are not part of the      *)
(* repository are known only by their address.                             *)
(***************************************************************************)
ServerTools(m, addr) ==
    CASE m = "aws" /\ addr = "http://localhost:8000/mcp" ->
            { << W(<<"create", "aws", "diagram">>), W(<<"list", "aws", "services">>) >> }
      [] m = "aws" /\ addr = "http://localhost:8001/mcp" ->
            { << W(<<"list", "eks", "clusters">>), W(<<"get", "cluster", "info">>) >> }
      [] m = "aws" /\ addr = "http://localhost:8002/mcp" ->
            { << W(<<"validate", "terraform">>), W(<<"terraform", "plan">>) >> }
      [] m = "aws" /\ addr = "http://localhost:8003/mcp" ->
            { << W(<<"get", "monthly", "costs">>), W(<<"get", "budget", "status">>) >> }
      [] m = "aws" /\ addr = "http://localhost:8004/mcp" ->
            { << W(<<"list", "repositories">>), W(<<"list", "commits">>) >> }
      [] m = "external" /\ addr = "http://localhost:8001/mcp" ->
            { << W(<<"read", "file">>), W(<<"list", "directory">>), W(<<"file", "info">>) >> }
      [] m = "external" /\ addr = "http://localhost:8002/mcp" ->
            { <<>>, << W(<<"query">>) >> }
      [] m = "official" /\ addr = "aws-mcp/cdk"   -> { << W(<<"x", "y">>), W(<<"y">>) >> }
      [] m = "official" /\ addr = "aws-mcp/cdk_x" -> { <<>>, << W(<<"y">>) >> }
      [] m = "gateway" -> { <<>>, << W(<<"cdk", "proxy">>), W(<<"Official", "cost">>) >> }
      [] OTHER -> { <<>>, << W(<<"x">>) >> }

(***************************************************************************)
(* Discovery: invoke runs one aggregation pass and publishes its result.   *)
(***************************************************************************)
DiscoveryModules == {"aws", "external", "official", "gateway"}

Reg == Registry(module, config)

\* the address the channel of a registry entry is opened at
Addr(e) == IF module = "official" THEN e.path ELSE e.url

InFlight == {"connect", "initialize", "list_tools", "close"}
Settled  == {"ok", "failed", "skipped"}
\* an await that the server never answers: the coroutine stays suspended, no
\* statement of the program sets a deadline for it
Hung == {"hung_connect", "hung"}

\* attempt of an entry: phase, whether list_tools returned, the names it
\* returned, and prefixed_tools of connect_to_mcp_server
NoAttempt ==
    [phase |-> "pending", headers |-> {}, got |-> FALSE, listed |-> <<>>, prefixed |-> <<>>]

\* one headers dict serves every server: the token of the gateway entry is
\* sent whenever it is configured
AuthHeaders_Shared(auth) ==
    IF config.GATEWAY_TOKEN = None
    THEN {} ELSE {<<"Authorization", <<"Bearer ", config.GATEWAY_TOKEN>>>>}

\* headers = {}; if config["auth"]: headers["Authorization"] = f"Bearer {config['auth']}"
AuthHeaders(auth) == IF auth = None THEN {} ELSE {<<"Authorization", <<"Bearer ", auth>>>>}

NoCmd == <<>>

\* the executable connect_to_aws_mcp_server starts for a server directory
Launcher(files) ==
    IF "main.py" \in files THEN <<"python", "main.py">>
    ELSE IF "index.js" \in files THEN <<"node", "index.js">>
    ELSE IF "server.py" \in files THEN <<"python", "server.py">>
    ELSE NoCmd

LauncherFiles == {"main.py", "index.js", "server.py"}

\* [f"{server_name}_{tool.name}" for tool in tools_result.tools]
PrefixAll(server_name, names) ==
    [k \in 1..Len(names) |-> Prefixed(server_name, names[k])]

\* the names the connector returns for the list a server advertised:
\* connect_to_gateway returns tools_result.tools as they are
Collected(server_name, names) ==
    IF module = "gateway" THEN names ELSE PrefixAll(server_name, names)

\* no os.path.exists test: open() of the absent file raises
PassEntry_NoExistsCheck ==
    CASE module = "official" /\ ~config.aws_mcp_config.exists -> "raised"
      [] module = "gateway" /\ GatewayEntry(config.gateway_config) = <<>> -> "raised"
      [] OTHER -> "running"

\* the statements of the aggregation function before its first attempt
PassEntry ==
    CASE module = "official" /\ ~config.aws_mcp_config.exists -> "returned"
      [] module = "gateway" /\ ~config.gateway_config.readable -> "returned"
      [] module = "gateway" /\ GatewayEntry(config.gateway_config) = <<>> -> "raised"
      [] OTHER -> "running"

\* invoke: asyncio.run(get_all_aws_mcp_tools()) starts
InvokeBegin ==
    /\ module \in DiscoveryModules
    /\ dpc = "idle" /\ cpc = "idle"
    /\ all_tools' = <<>>
    /\ idx' = 1
    /\ att' = [i \in 1..Len(Reg) |-> NoAttempt]
    /\ dpc' = PassEntry
    /\ UNCHANGED <<run, module, config, agent_tools, cpc, call, open_sessions>>

\* the attempt of entry i settles with phase ph: the for loop moves on
Settle(i, ph) ==
    /\ att' = [att EXCEPT ![i].phase = ph]
    /\ idx' = idx + 1

\* the attempts are launched together: entry i starts whatever the others do
AttemptStart_Concurrent(i) ==
    /\ dpc = "running"
    /\ i <= Len(Reg) /\ att[i].phase = "pending"
    /\ att' = [att EXCEPT ![i].phase = "connect"]
    /\ UNCHANGED <<run, module, config, agent_tools, dpc, idx, all_tools, cpc, call, open_sessions>>

\* the for loop reaches entry i and starts its attempt
AttemptStart(i) ==
    /\ dpc = "running"
    /\ i = idx /\ i <= Len(Reg) /\ att[i].phase = "pending"
    /\ \A j \in 1..Len(Reg) : att[j].phase \notin InFlight
    /\ IF module = "external" /\ Reg[i].url = None
       THEN Settle(i, "skipped") /\ UNCHANGED dpc
       ELSE IF module = "official" /\ Reg[i].path = None
       THEN dpc' = "raised" /\ UNCHANGED <<att, idx>>
       ELSE \E files \in SUBSET LauncherFiles :
              IF module = "official" /\ Launcher(files) = NoCmd
              THEN Settle(i, "failed") /\ UNCHANGED dpc
              ELSE /\ att' = [att EXCEPT ![i].phase = "connect",
                                          ![i].headers = AuthHeaders(Reg[i].auth)]
                   /\ UNCHANGED <<dpc, idx>>
    /\ UNCHANGED <<run, module, config, agent_tools, all_tools, cpc, call, open_sessions>>

\* a connection failure is not caught: it ends the pass with no tools
Connect_Abort(i) ==
    /\ dpc = "running" /\ att[i].phase = "connect"
    /\ \E ok \in BOOLEAN :
         IF ok
         THEN /\ att' = [att EXCEPT ![i].phase = "initialize"]
              /\ open_sessions' = open_sessions + 1
              /\ UNCHANGED <<idx, dpc, all_tools>>
         ELSE /\ att' = [att EXCEPT ![i].phase = "failed"]
              /\ dpc' = "returned" /\ all_tools' = <<>>
              /\ UNCHANGED <<idx, open_sessions>>
    /\ UNCHANGED <<run, module, config, agent_tools, cpc, call>>

\* streamablehttp_client / stdio_client and ClientSession are entered
Connect(i) ==
    /\ dpc = "running" /\ att[i].phase = "connect"
    /\ \/ \E ok \in BOOLEAN :
            IF ok
            THEN /\ att' = [att EXCEPT ![i].phase = "initialize"]
                 /\ open_sessions' = open_sessions + 1
                 /\ UNCHANGED idx
            ELSE Settle(i, "failed") /\ UNCHANGED open_sessions
       \/ /\ att' = [att EXCEPT ![i].phase = "hung_connect"]
          /\ UNCHANGED <<idx, open_sessions>>
    /\ UNCHANGED <<run, module, config, agent_tools, dpc, all_tools, cpc, call>>

\* a failed handshake leaves the async with blocks without closing them
Initialize_Leak(i) ==
    /\ dpc = "running" /\ att[i].phase = "initialize"
    /\ \/ \E ok \in BOOLEAN :
            IF ok
            THEN /\ att' = [att EXCEPT ![i].phase = "list_tools"]
                 /\ UNCHANGED <<idx, open_sessions>>
            ELSE Settle(i, "failed") /\ UNCHANGED open_sessions
       \/ /\ att' = [att EXCEPT ![i].phase = "hung"]
          /\ UNCHANGED <<idx, open_sessions>>
    /\ UNCHANGED <<run, module, config, agent_tools, dpc, all_tools, cpc, call>>

\* await session.initialize()
Initialize(i) ==
    /\ dpc = "running" /\ att[i].phase = "initialize"
    /\ \/ \E ok \in BOOLEAN :
            IF ok
            THEN /\ att' = [att EXCEPT ![i].phase = "list_tools"]
                 /\ UNCHANGED <<idx, open_sessions>>
            ELSE Settle(i, "failed") /\ open_sessions' = open_sessions - 1
       \/ /\ att' = [att EXCEPT ![i].phase = "hung"]
          /\ UNCHANGED <<idx, open_sessions>>
    /\ UNCHANGED <<run, module, config, agent_tools, dpc, all_tools, cpc, call>>

\* await session.list_tools() and the loop that prefixes the names
ListTools(i) ==
    /\ dpc = "running" /\ att[i].phase = "list_tools"
    /\ \/ \E names \in ServerTools(module, Addr(Reg[i])) :
            /\ att' = [att EXCEPT ![i] = [phase |-> "close", headers |-> att[i].headers,
                                          got |-> TRUE, listed |-> names,
                                          prefixed |-> Collected(Reg[i].name, names)]]
            /\ all_tools' = IF module = "external"
                            THEN all_tools \o PrefixAll(Reg[i].name, names)
                            ELSE all_tools
            /\ UNCHANGED <<idx, open_sessions>>
       \/ /\ Settle(i, "failed")
          /\ open_sessions' = open_sessions - 1
          /\ UNCHANGED all_tools
       \/ /\ att' = [att EXCEPT ![i].phase = "hung"]
          /\ UNCHANGED <<idx, open_sessions, all_tools>>
    /\ UNCHANGED <<run, module, config, agent_tools, dpc, cpc, call>>

\* the list is published as it grows: agent.tools is assigned after each server
Close_Publish(i) ==
    /\ dpc = "running" /\ att[i].phase = "close"
    /\ open_sessions' = open_sessions - 1
    /\ \E ok \in BOOLEAN :
         IF ok
         THEN /\ Settle(i, "ok")
              /\ all_tools' = IF module = "external"
                              THEN all_tools
                              ELSE all_tools \o att[i].prefixed
         ELSE Settle(i, "failed") /\ UNCHANGED all_tools
    /\ agent_tools' = all_tools'
    /\ UNCHANGED <<run, module, config, dpc, cpc, call>>

\* the two async with blocks are left; the connector returns prefixed_tools
Close(i) ==
    /\ dpc = "running" /\ att[i].phase = "close"
    /\ open_sessions' = open_sessions - 1
    /\ \E ok \in BOOLEAN :
         IF ok
         THEN /\ Settle(i, "ok")
              /\ all_tools' = IF module = "external"
                              THEN all_tools
                              ELSE all_tools \o att[i].prefixed
         ELSE Settle(i, "failed") /\ UNCHANGED all_tools
    /\ UNCHANGED <<run, module, config, agent_tools, dpc, cpc, call>>

\* the for loop is exhausted: return all_tools
PassReturn ==
    /\ dpc = "running"
    /\ idx > Len(Reg)
    /\ dpc' = "returned"
    /\ UNCHANGED <<run, module, config, agent_tools, idx, att, all_tools, cpc, call, open_sessions>>

\* invoke: if tools: agent.tools = tools; then the agent answers the prompt
InvokeFinish ==
    /\ dpc \in {"returned", "raised"}
    /\ agent_tools' = IF dpc = "returned" /\ all_tools # <<>> THEN all_tools ELSE agent_tools
    /\ dpc' = "idle"
    /\ all_tools' = <<>>
    /\ idx' = 1
    /\ att' = <<>>
    /\ UNCHANGED <<run, module, config, cpc, call, open_sessions>>

(***************************************************************************)
(* Dispatch: execute_aws_mcp_tool, execute_mcp_tool and                    *)
(* GatewayToolExecutor.execute_tool.                                       *)
(***************************************************************************)
DispatchModules == {"aws", "external", "gateway"}

\* Python dicts of the argument payloads: keys is the set of keys present,
\* a field whose key is absent holds a filler
NoArgs == [keys |-> {}, months |-> 0]
Months == [keys |-> {"months"}, months |-> 3]
Dict(keys, tool_name, arguments, months) ==
    [keys |-> keys, tool_name |-> tool_name, arguments |-> arguments, months |-> months]

\* d.get(key, default) for the keys the gateway executor reads
DictGet(d, key, default) ==
    IF key \notin d.keys THEN default
    ELSE IF key = "tool_name" THEN d.tool_name ELSE d.arguments

\* the argument payloads a caller passes
Arguments(m) ==
    { Dict({}, <<>>, NoArgs, 0), Dict({"months"}, <<>>, NoArgs, 3) }
    \cup (IF m = "gateway"
          THEN { Dict({"tool_name", "arguments"}, W(<<"get", "monthly", "costs">>), Months, 0),
                 Dict({"arguments"}, <<>>, Months, 0),
                 Dict({"tool_name"}, W(<<"get", "monthly", "costs">>), NoArgs, 0) }
          ELSE {})

\* a JSON object with the keys K of a gateway configuration
GatewayDoc(K) ==
    [keys |-> K, gateway_url |-> "https://gateway/mcp", access_token |-> "token"]

\* official_mcp_gateway_config.json: whether it can be read, and its content
GatewayConfigs ==
    { [readable |-> FALSE, doc |-> GatewayDoc({})] }
    \cup { [readable |-> TRUE, doc |-> GatewayDoc(K)] :
             K \in { {}, {"gateway_id"}, {"gateway_url", "gateway_id"},
                     {"access_token", "gateway_id"},
                     {"gateway_url", "access_token", "gateway_id"} } }

\* GatewayToolExecutor._load_config
LoadConfig(file) == IF file.readable THEN file.doc ELSE GatewayDoc({})

\* the original tool names tried on every server
OpNames == Strings({"x", Sep}, MaxNameLen) \ {<<>>}

\* tool names the gateway advertises
GatewayToolNames ==
    { W(<<"cdk", "proxy">>), W(<<"Official", "cost">>), W(<<"cdk", "proxy", "x", "proxy">>) }

\* the tool names a caller passes to the dispatcher of module m
DispatchNames(m) ==
    IF m = "gateway" THEN GatewayToolNames
    ELSE LET reg == Registry(m, config) IN
         {<<>>} \cup OpNames \cup Range(agent_tools)
         \cup {Prefixed(reg[i].name, n) : i \in 1..Len(reg), n \in OpNames}

\* what call_tool can answer: result.content
TextContent(t) == [type |-> "text", text |-> t]
Contents ==
    { <<>>, <<TextContent(<<"r1">>)>>, <<TextContent(<<"r1">>), TextContent(<<"r2">>)>>,
      <<[type |-> "image", text |-> <<>>]>> }

Return(v) == [kind |-> "return", value |-> v]
Raise(v)  == [kind |-> "raise", value |-> v]

\* server_name of execute_aws_mcp_tool: the first two '_'-delimited segments
AwsServerName(parts) == parts[1] \o <<Sep>> \o parts[2]
\* only the third segment is kept: tool_name.split('_')[2]
AwsOriginalName_ThirdOnly(parts) == IF Len(parts) >= 3 THEN parts[3] ELSE <<>>

\* original_tool_name of execute_aws_mcp_tool
AwsOriginalName(parts) == Join(SliceFrom(parts, 2))
\* server_name of execute_mcp_tool: the first '_'-delimited segment
ExtServerName(parts) == parts[1]
\* original_tool_name of execute_mcp_tool
ExtOriginalName(parts) == Join(SliceFrom(parts, 1))

\* f"Server {server_name} not found"
NotFound(server_name) == <<"Server ">> \o server_name \o <<" not found">>
\* f"Server {server_name} not available"
NotAvailable(server_name) == <<"Server ">> \o server_name \o <<" not available">>
\* the string returned by the except clause of the dispatcher of module m
ErrorResult(m, cause) ==
    IF m = "gateway"
    THEN <<"Gateway tool execution error: ">> \o cause
    ELSE <<"Tool execution error: ">> \o cause

\* result.content[0].text, whatever result.content holds
FirstText_Unguarded(m, content) ==
    IF content = <<>> THEN Raise(<<"IndexError">>)
    ELSE IF content[1].type = "text" THEN Return(content[1].text)
    ELSE Raise(<<"AttributeError">>)

\* result.content[0].text if result.content else <marker>
FirstText(m, content) ==
    IF content = <<>>
    THEN Return(IF m = "gateway" THEN <<"Tool executed successfully">> ELSE <<"No result">>)
    ELSE IF content[1].type = "text" THEN Return(content[1].text)
    ELSE Raise(<<"AttributeError">>)

\* the executor unwraps the payload and forwards the inner arguments alone
GatewayPayload_Unwrap(tool_name, arguments) ==
    IF Contains(tool_name, <<Sep, "proxy">>)
    THEN DictGet(arguments, "arguments", arguments)
    ELSE arguments

\* the name and payload the gateway executor passes to call_tool
GatewayPayload(tool_name, arguments) ==
    IF Contains(tool_name, <<Sep, "proxy">>)
    THEN Dict({"tool_name", "arguments"},
              DictGet(arguments, "tool_name", Replace(tool_name, <<Sep, "proxy">>, <<>>)),
              DictGet(arguments, "arguments", arguments), 0)
    ELSE arguments

\* the locals of a dispatch; via tells the wrapper of agent.tools it was
\* called through and the keyword arguments the wrapper got
Frame(tool_name, arguments) ==
    [tool_name |-> tool_name, arguments |-> arguments, via |-> <<>>,
     server_name |-> <<>>, original_tool_name |-> <<>>,
     url |-> None, headers |-> {},
     opened |-> <<>>, calls |-> <<>>, response |-> <<>>, errors |-> <<>>,
     pending |-> Return(<<>>), outcome |-> Return(<<>>)]

\* the statements of execute_aws_mcp_tool before its try block
AwsResolve(f) ==
    LET parts == Split(f.tool_name) IN
    IF Len(parts) < 2
    THEN [pc |-> "done", f |-> [f EXCEPT !.outcome = Raise(<<"IndexError">>)]]
    ELSE LET server_name == AwsServerName(parts)
             cfg == Get(AWS_MCP_SERVERS, server_name)
             found == Has(AWS_MCP_SERVERS, server_name)
             g == [f EXCEPT !.server_name = server_name,
                            !.original_tool_name = AwsOriginalName(parts)]
         IN  IF ~found
             THEN [pc |-> "done", f |-> [g EXCEPT !.outcome = Return(NotFound(server_name))]]
             ELSE [pc |-> "connect", f |-> [g EXCEPT !.url = cfg.url]]

\* the statements of execute_mcp_tool before its try block
ExtResolve(f) ==
    LET parts == Split(f.tool_name)
        server_name == ExtServerName(parts)
        cfg == Get(MCP_SERVERS(config), server_name)
        found == Has(MCP_SERVERS(config), server_name)
        g == [f EXCEPT !.server_name = server_name,
                       !.original_tool_name = ExtOriginalName(parts)]
    IN  IF ~found \/ cfg.url = None
        THEN [pc |-> "done", f |-> [g EXCEPT !.outcome = Return(NotAvailable(server_name))]]
        ELSE [pc |-> "connect", f |-> [g EXCEPT !.url = cfg.url,
                                                !.headers = AuthHeaders(cfg.auth)]]

\* the statements of GatewayToolExecutor.execute_tool before its try block
GatewayResolve(f) ==
    LET cfg == LoadConfig(config.gateway_config) IN
    IF cfg.keys = {}
    THEN [pc |-> "done", f |-> [f EXCEPT !.outcome = Return(<<"Gateway not configured">>)]]
    ELSE IF "gateway_url" \notin cfg.keys \/ "access_token" \notin cfg.keys
    THEN [pc |-> "done", f |-> [f EXCEPT !.outcome = Raise(<<"KeyError">>)]]
    ELSE [pc |-> "connect",
          f |-> [f EXCEPT !.server_name = <<"gateway">>,
                          !.original_tool_name = f.tool_name,
                          !.url = cfg.gateway_url,
                          !.headers = {<<"Authorization", <<"Bearer ", cfg.access_token>>>>}]]

Resolve(f) ==
    CASE module = "aws"      -> AwsResolve(f)
      [] module = "external" -> ExtResolve(f)
      [] OTHER               -> GatewayResolve(f)

\* the dispatcher is called with tool_name and arguments
DispatchBegin(tool_name, arguments) ==
    /\ module \in DispatchModules
    /\ cpc = "idle" /\ dpc = "idle"
    /\ LET r == Resolve(Frame(tool_name, arguments)) IN
         cpc' = r.pc /\ call' = r.f
    /\ UNCHANGED <<run, module, config, agent_tools, dpc, idx, att, all_tools, open_sessions>>

\* the wrappers share the loop variable: each one reads tool.name when it
\* is called, after the loop has ended
WrapperTarget_LateBinding(tools, i) == tools[Len(tools)]

\* the tool_name the i-th wrapper of invoke passes to execute_tool:
\* create_wrapper(tool.name) binds it when the wrapper is made
WrapperTarget(tools, i) == tools[i]

\* the agent calls the i-th wrapper of agent.tools with keyword arguments
WrapperCall(i, kwargs) ==
    /\ module = "gateway"
    /\ cpc = "idle" /\ dpc = "idle"
    /\ i \in 1..Len(agent_tools)
    /\ LET r == Resolve(Frame(WrapperTarget(agent_tools, i), kwargs)) IN
         /\ cpc' = r.pc
         /\ call' = [r.f EXCEPT !.via = <<i, kwargs>>]
    /\ UNCHANGED <<run, module, config, agent_tools, dpc, idx, att, all_tools, open_sessions>>

\* no except clause: the exception leaves the dispatcher
Caught_Reraise(pending) == pending

\* the outcome of the try block when exc reaches its except clause
Caught(pending) ==
    IF pending.kind = "raise" THEN Return(ErrorResult(module, pending.value)) ELSE pending

\* streamablehttp_client(url) and ClientSession are entered
DispatchConnect ==
    /\ cpc = "connect"
    /\ \E ok \in BOOLEAN :
         IF ok
         THEN /\ cpc' = "initialize"
              /\ call' = [call EXCEPT !.opened = Append(@, [url |-> call.url,
                                                             headers |-> call.headers])]
              /\ open_sessions' = open_sessions + 1
         ELSE /\ cpc' = "done"
              /\ call' = [call EXCEPT !.errors = Append(@, <<"connect failed">>),
                                       !.outcome = Caught(Raise(<<"connect failed">>))]
              /\ UNCHANGED open_sessions
    /\ UNCHANGED <<run, module, config, agent_tools, dpc, idx, att, all_tools>>

\* a failed handshake is retried: the session is closed and opened again
DispatchInitialize_Retry ==
    /\ cpc = "initialize"
    /\ \/ /\ \E ok \in BOOLEAN :
               IF ok
               THEN cpc' = "call_tool" /\ UNCHANGED <<call, open_sessions>>
               ELSE /\ cpc' = "connect"
                    /\ call' = [call EXCEPT !.errors = Append(@, <<"initialize failed">>)]
                    /\ open_sessions' = open_sessions - 1
       \/ cpc' = "hung" /\ UNCHANGED <<call, open_sessions>>
    /\ UNCHANGED <<run, module, config, agent_tools, dpc, idx, att, all_tools>>

\* await session.initialize()
DispatchInitialize ==
    /\ cpc = "initialize"
    /\ \/ \E ok \in BOOLEAN :
            IF ok
            THEN cpc' = "call_tool" /\ UNCHANGED call
            ELSE /\ cpc' = "close"
                 /\ call' = [call EXCEPT !.errors = Append(@, <<"initialize failed">>),
                                          !.pending = Raise(<<"initialize failed">>)]
       \/ cpc' = "hung" /\ UNCHANGED call
    /\ UNCHANGED <<run, module, config, agent_tools, dpc, idx, att, all_tools, open_sessions>>

\* await session.call_tool(...) and the return expression
DispatchCallTool ==
    /\ cpc = "call_tool"
    /\ LET name == call.original_tool_name
           payload == IF module = "gateway"
                      THEN GatewayPayload(call.tool_name, call.arguments)
                      ELSE call.arguments
           sent == Append(call.calls, [url |-> call.url, name |-> name, arguments |-> payload])
       IN  \/ /\ \E content \in Contents :
                   call' = [call EXCEPT !.calls = sent, !.response = content,
                                        !.pending = FirstText(module, content)]
              /\ cpc' = "close"
           \/ /\ call' = [call EXCEPT !.calls = sent,
                                       !.errors = Append(@, <<"call failed">>),
                                       !.pending = Raise(<<"call failed">>)]
              /\ cpc' = "close"
           \/ /\ call' = [call EXCEPT !.calls = sent]
              /\ cpc' = "hung"
    /\ UNCHANGED <<run, module, config, agent_tools, dpc, idx, att, all_tools, open_sessions>>

\* the two async with blocks are left, then return or except
DispatchClose ==
    /\ cpc = "close"
    /\ open_sessions' = open_sessions - 1
    /\ \E ok \in BOOLEAN :
         IF ok
         THEN call' = [call EXCEPT !.outcome = Caught(call.pending)]
         ELSE call' = [call EXCEPT !.errors = Append(@, <<"close failed">>),
                                   !.outcome = Caught(Raise(<<"close failed">>))]
    /\ cpc' = "done"
    /\ UNCHANGED <<run, module, config, agent_tools, dpc, idx, att, all_tools>>

\* the caller takes the outcome
DispatchReturn ==
    /\ cpc = "done"
    /\ cpc' = "idle"
    /\ call' = <<>>
    /\ UNCHANGED <<run, module, config, agent_tools, dpc, idx, att, all_tools, open_sessions>>

Init ==
    /\ module \in {"aws", "external", "official", "gateway"}
    /\ config \in [GATEWAY_URL : {None, "https://gateway/mcp"},
                   GATEWAY_TOKEN : {None, "token"},
                   aws_mcp_config : ServerConfigs,
                   gateway_config : GatewayConfigs]
    /\ module # "external" => config.GATEWAY_URL = None /\ config.GATEWAY_TOKEN = None
    /\ module # "official" => config.aws_mcp_config = ConfigFile(FALSE, <<>>)
    /\ module # "gateway" => ~config.gateway_config.readable
    /\ agent_tools = <<>>
    /\ dpc = "idle"
    /\ idx = 1
    /\ att = <<>>
    /\ all_tools = <<>>
    /\ cpc = "idle"
    /\ call = <<>>
    /\ open_sessions = 0
    /\ run = <<>>

Next ==
    \/ InvokeBegin
    \/ \E i \in 1..Len(Reg) : AttemptStart(i)
    \/ \E i \in 1..Len(Reg) : Connect(i)
    \/ \E i \in 1..Len(Reg) : Initialize(i)
    \/ \E i \in 1..Len(Reg) : ListTools(i)
    \/ \E i \in 1..Len(Reg) : Close(i)
    \/ PassReturn
    \/ InvokeFinish
    \/ \E tool_name \in DispatchNames(module), arguments \in Arguments(module) :
          DispatchBegin(tool_name, arguments)
    \/ \E i \in 1..Len(agent_tools), kwargs \in Arguments(module) : WrapperCall(i, kwargs)
    \/ DispatchConnect
    \/ DispatchInitialize
    \/ DispatchCallTool
    \/ DispatchClose
    \/ DispatchReturn

Spec == Init /\ [][Next]_vars

\* the statements of the program itself, as opposed to the calls it receives:
\* the event loop of asyncio.run resumes every coroutine that can continue
ProgramStep ==
    \/ \E i \in 1..Len(Reg) : AttemptStart(i) \/ Connect(i) \/ Initialize(i)
                                \/ ListTools(i) \/ Close(i)
    \/ PassReturn
    \/ InvokeFinish
    \/ DispatchConnect
    \/ DispatchInitialize
    \/ DispatchCallTool
    \/ DispatchClose
    \/ DispatchReturn

FairSpec == Spec /\ WF_vars(ProgramStep)

(***************************************************************************)
(* Concurrent dispatches: a turn in which the agent runs MaxCalls tool     *)
(* calls as interleaved coroutines.  Under ConcSpec cpc and call hold, per *)
(* call, the position and the locals that Spec holds for its one call.     *)
(* The dispatchers keep everything in locals; what they share is read      *)
(* only: the registries, and self.config of the GatewayToolExecutor.       *)
(***************************************************************************)
MaxCalls == 2
Slots == 1..MaxCalls

\* the statements of a dispatcher from position pc with locals f, up to its
\* next await or its return: the positions and locals it can reach, and by
\* how much the number of open sessions changes (d)
DispatchStep(pc, f) ==
    CASE pc = "connect" ->
           { [pc |-> "initialize", d |-> 1,
              f |-> [f EXCEPT !.opened = Append(@, [url |-> f.url, headers |-> f.headers])]],
             [pc |-> "done", d |-> 0,
              f |-> [f EXCEPT !.errors = Append(@, <<"connect failed">>),
                              !.outcome = Caught(Raise(<<"connect failed">>))]] }
      [] pc = "initialize" ->
           { [pc |-> "call_tool", d |-> 0, f |-> f],
             [pc |-> "close", d |-> 0,
              f |-> [f EXCEPT !.errors = Append(@, <<"initialize failed">>),
                              !.pending = Raise(<<"initialize failed">>)]],
             [pc |-> "hung", d |-> 0, f |-> f] }
      [] pc = "call_tool" ->
           LET payload == IF module = "gateway"
                          THEN GatewayPayload(f.tool_name, f.arguments)
                          ELSE f.arguments
               sent == Append(f.calls, [url |-> f.url, name |-> f.original_tool_name,
                                        arguments |-> payload])
           IN  { [pc |-> "close", d |-> 0,
                  f |-> [f EXCEPT !.calls = sent, !.response = content,
                                  !.pending = FirstText(module, content)]] :
                 content \in Contents }
               \cup
               { [pc |-> "close", d |-> 0,
                  f |-> [f EXCEPT !.calls = sent,
                                  !.errors = Append(@, <<"call failed">>),
                                  !.pending = Raise(<<"call failed">>)]],
                 [pc |-> "hung", d |-> 0, f |-> [f EXCEPT !.calls = sent]] }
      [] pc = "close" ->
           { [pc |-> "done", d |-> -1, f |-> [f EXCEPT !.outcome = Caught(f.pending)]],
             [pc |-> "done", d |-> -1,
              f |-> [f EXCEPT !.errors = Append(@, <<"close failed">>),
                              !.outcome = Caught(Raise(<<"close failed">>))]] }
      [] OTHER -> {}

\* the calls of a turn: two tools of different servers, each with its payload
TurnCalls(m) ==
    CASE m = "aws" ->
           { <<W(<<"aws", "cost", "get", "monthly", "costs">>), Dict({"months"}, <<>>, NoArgs, 3)>>,
             <<W(<<"aws", "eks", "list", "eks", "clusters">>), Dict({}, <<>>, NoArgs, 0)>> }
      [] m = "external" ->
           { <<W(<<"filesystem", "read", "file">>), Dict({}, <<>>, NoArgs, 0)>>,
             <<W(<<"agentcore", "gateway", "x">>), Dict({"months"}, <<>>, NoArgs, 3)>> }
      [] OTHER ->
           { <<W(<<"cdk", "proxy">>), Dict({"arguments"}, <<>>, Months, 0)>>,
             <<W(<<"Official", "cost">>), Dict({"months"}, <<>>, NoArgs, 3)>> }

\* the coroutine of call s is created
ConcBegin(s) ==
    /\ cpc[s] = "idle"
    /\ \E c \in TurnCalls(module) :
         LET r == Resolve(Frame(c[1], c[2])) IN
           /\ cpc' = [cpc EXCEPT ![s] = r.pc]
           /\ call' = [call EXCEPT ![s] = r.f]
    /\ UNCHANGED <<run, module, config, agent_tools, dpc, idx, att, all_tools, open_sessions>>

\* the event loop resumes call s with the locals of another call
ConcStep_SharedLocals(s) ==
    /\ \E o \in Slots :
         /\ cpc[o] \notin {"idle", "done", "hung"}
         /\ \E n \in DispatchStep(cpc[s], call[o]) :
              /\ cpc' = [cpc EXCEPT ![s] = n.pc]
              /\ call' = [call EXCEPT ![s] = n.f]
              /\ open_sessions' = open_sessions + n.d
    /\ UNCHANGED <<run, module, config, agent_tools, dpc, idx, att, all_tools>>

\* the event loop resumes call s, which runs to its next await or its return
ConcStep(s) ==
    /\ \E n \in DispatchStep(cpc[s], call[s]) :
         /\ cpc' = [cpc EXCEPT ![s] = n.pc]
         /\ call' = [call EXCEPT ![s] = n.f]
         /\ open_sessions' = open_sessions + n.d
    /\ UNCHANGED <<run, module, config, agent_tools, dpc, idx, att, all_tools>>

\* the caller of call s takes its outcome
ConcReturn(s) ==
    /\ cpc[s] = "done"
    /\ cpc' = [cpc EXCEPT ![s] = "idle"]
    /\ call' = [call EXCEPT ![s] = <<>>]
    /\ UNCHANGED <<run, module, config, agent_tools, dpc, idx, att, all_tools, open_sessions>>

ConcInit ==
    /\ module \in DispatchModules
    /\ config \in [GATEWAY_URL : {None, "https://gateway/mcp"},
                   GATEWAY_TOKEN : {None, "token"},
                   aws_mcp_config : ServerConfigs,
                   gateway_config : GatewayConfigs]
    /\ module # "external" => config.GATEWAY_URL = None /\ config.GATEWAY_TOKEN = None
    /\ config.aws_mcp_config = ConfigFile(FALSE, <<>>)
    /\ module # "gateway" => ~config.gateway_config.readable
    /\ agent_tools = <<>>
    /\ dpc = "idle"
    /\ idx = 1
    /\ att = <<>>
    /\ all_tools = <<>>
    /\ cpc = [s \in Slots |-> "idle"]
    /\ call = [s \in Slots |-> <<>>]
    /\ open_sessions = 0
    /\ run = <<>>

ConcNext ==
    \/ \E s \in Slots : ConcBegin(s)
    \/ \E s \in Slots : ConcStep(s)
    \/ \E s \in Slots : ConcReturn(s)

ConcSpec == ConcInit /\ [][ConcNext]_vars

(***************************************************************************)
(* Entry points outside discovery and dispatch.  HandlerSpec runs one of   *)
(* them, chosen by module: "agent" is the session handling of invoke       *)
(* (agent.py; the same statements open invoke of the four other agents).   *)
(***************************************************************************)
MaxInvocations == 3

\* the context argument of invoke: with or without a session_id attribute
NoSessionId == [has_session_id |-> FALSE, session_id |-> ""]
Contexts ==
    {NoSessionId} \cup {[has_session_id |-> TRUE, session_id |-> id] : id \in {"s1", "s2"}}

\* Agent(..., state={"session_id": "default"}) with MEMORY_ID set, so that the
\* MemoryHook is registered; stored lists the session_id arguments of
\* memory_client.create_event during the running invocation
AgentRun ==
    [pc |-> "idle", state |-> [session_id |-> "default"], context |-> NoSessionId,
     stored |-> <<>>, count |-> 0]

\* invoke: if hasattr(context, 'session_id'): agent.state.set(...); agent(prompt)
SessionInvoke(context) ==
    /\ module = "agent"
    /\ run.pc = "idle" /\ run.count < MaxInvocations
    /\ run' = [run EXCEPT !.pc = "agent",
                          !.context = context,
                          !.state = IF context.has_session_id
                                    THEN [session_id |-> context.session_id] ELSE @,
                          !.stored = <<>>,
                          !.count = @ + 1]
    /\ UNCHANGED <<module, config, agent_tools, dpc, idx, att, all_tools, cpc, call,
                   open_sessions>>

\* MemoryHook.on_message_added, for the user message and for the answer
OnMessageAdded ==
    /\ module = "agent"
    /\ run.pc = "agent" /\ Len(run.stored) < 2
    /\ run' = [run EXCEPT !.stored = Append(@, run.state.session_id)]
    /\ UNCHANGED <<module, config, agent_tools, dpc, idx, att, all_tools, cpc, call,
                   open_sessions>>

\* return response.message['content'][0]['text']
SessionReturn ==
    /\ module = "agent"
    /\ run.pc = "agent" /\ Len(run.stored) = 2
    /\ run' = [run EXCEPT !.pc = "idle"]
    /\ UNCHANGED <<module, config, agent_tools, dpc, idx, att, all_tools, cpc, call,
                   open_sessions>>

(***************************************************************************)
(* module "api_gateway": lambda_handler of api_gateway.py.                 *)
(***************************************************************************)
\* event['body'] as API Gateway delivers it: None, or a text that is no JSON,
\* or the JSON text of an object (with or without "prompt"), of a list, of null
BodyKinds == {"none", "invalid", "object", "list", "null"}
Bodies ==
    {[kind |-> k, has_prompt |-> FALSE] : k \in BodyKinds}
      \cup {[kind |-> "object", has_prompt |-> TRUE]}

\* has_body: the key 'body' is present
Events ==
    [has_body : BOOLEAN, body : Bodies]

\* os.environ has AGENT_ARN or not; boto3.client(...) and invoke_agent(...)
\* succeed or raise; a successful answer has output.text or not
Environments ==
    [AGENT_ARN : BOOLEAN, client : {"ok", "raises"},
     invoke_agent : {"text", "no_output", "raises"}]

NoAnswer == [statusCode |-> 0, key |-> "", value |-> ""]

\* json.loads(text): the parsed value's type, or the exception
JsonLoads(body) ==
    CASE body.kind = "none" -> [raised |-> TRUE, value |-> "TypeError"]
      [] body.kind = "invalid" -> [raised |-> TRUE, value |-> "JSONDecodeError"]
      [] body.kind = "object" -> [raised |-> FALSE, value |-> "dict"]
      [] body.kind = "list" -> [raised |-> FALSE, value |-> "list"]
      [] OTHER -> [raised |-> FALSE, value |-> "NoneType"]

\* event.get('body', '{}'): the default only when the key is absent
EventBody(event) ==
    IF event.has_body THEN event.body ELSE [kind |-> "object", has_prompt |-> FALSE]

LambdaEnter(event, env) ==
    /\ module = "api_gateway"
    /\ run.pc = "idle"
    /\ run' = [pc |-> "loads", event |-> event, env |-> env, prompt |-> "",
               error |-> "", answer |-> NoAnswer]
    /\ UNCHANGED <<module, config, agent_tools, dpc, idx, att, all_tools, cpc, call,
                   open_sessions>>

\* body = json.loads(event.get('body', '{}')); prompt = body.get('prompt', '')
LambdaParse ==
    /\ module = "api_gateway"
    /\ run.pc = "loads"
    /\ LET body == EventBody(run.event)
           r == JsonLoads(body)
       IN  run' = IF r.raised
                  THEN [run EXCEPT !.pc = "raised", !.error = r.value]
                  ELSE IF r.value # "dict"
                  THEN [run EXCEPT !.pc = "raised", !.error = "AttributeError"]
                  ELSE [run EXCEPT !.pc = "client",
                                   !.prompt = IF body.has_prompt THEN "prompt" ELSE ""]
    /\ UNCHANGED <<module, config, agent_tools, dpc, idx, att, all_tools, cpc, call,
                   open_sessions>>

\* agentcore_client = boto3.client('bedrock-agentcore-runtime')
LambdaClient ==
    /\ module = "api_gateway"
    /\ run.pc = "client"
    /\ run' = IF run.env.client = "raises"
              THEN [run EXCEPT !.pc = "raised", !.error = "client"]
              ELSE [run EXCEPT !.pc = "try"]
    /\ UNCHANGED <<module, config, agent_tools, dpc, idx, att, all_tools, cpc, call,
                   open_sessions>>

\* the try block: invoke_agent and the 200 answer, or the 500 answer
LambdaTry ==
    /\ module = "api_gateway"
    /\ run.pc = "try"
    /\ run' = IF ~run.env.AGENT_ARN
              THEN [run EXCEPT !.pc = "returned",
                               !.answer = [statusCode |-> 500, key |-> "error",
                                           value |-> "KeyError"]]
              ELSE IF run.env.invoke_agent = "raises"
              THEN [run EXCEPT !.pc = "returned",
                               !.answer = [statusCode |-> 500, key |-> "error",
                                           value |-> "invoke_agent"]]
              ELSE [run EXCEPT !.pc = "returned",
                               !.answer = [statusCode |-> 200, key |-> "response",
                                           value |-> IF run.env.invoke_agent = "text"
                                                     THEN "text" ELSE "No response"]]
    /\ UNCHANGED <<module, config, agent_tools, dpc, idx, att, all_tools, cpc, call,
                   open_sessions>>

\* the Lambda runtime hands the next event to the handler
LambdaNext ==
    /\ module = "api_gateway"
    /\ run.pc \in {"returned", "raised"}
    /\ run' = [pc |-> "idle"]
    /\ UNCHANGED <<module, config, agent_tools, dpc, idx, att, all_tools, cpc, call,
                   open_sessions>>

(***************************************************************************)
(* module "setup_gateway": the three places that look at a server          *)
(* directory, setup_gateway_with_official_mcp.py and the stdio connector   *)
(* of agent_with_official_aws_mcp.py.                                      *)
(***************************************************************************)
\* discover_mcp_servers: the directory holds main.py, server.py or index.js
IsMcpServer(files) ==
    "main.py" \in files \/ "server.py" \in files \/ "index.js" \in files

\* 'type': 'python' if os.path.exists(.../main.py) else 'node'
ServerType(files) == IF "main.py" \in files THEN "python" ELSE "node"

\* cmd of call_mcp_tool in the Lambda code create_lambda_proxy_for_mcp writes
ProxyLauncher(files) ==
    IF "main.py" \in files THEN <<"python", "main.py">>
    ELSE IF "server.py" \in files THEN <<"python", "server.py">>
    ELSE <<"node", "index.js">>

\* for item in os.listdir(aws_mcp_path): one directory and what it holds
SetupDiscover(files) ==
    /\ module = "setup_gateway"
    /\ run.pc = "idle"
    /\ run' = IF IsMcpServer(files)
              THEN [pc |-> "discovered", files |-> files, type |-> ServerType(files),
                    proxy_cmd |-> NoCmd, agent_cmd |-> NoCmd]
              ELSE [pc |-> "skipped", files |-> files, type |-> "",
                    proxy_cmd |-> NoCmd, agent_cmd |-> NoCmd]
    /\ UNCHANGED <<module, config, agent_tools, dpc, idx, att, all_tools, cpc, call,
                   open_sessions>>

\* the generated Lambda starts the server of a discovered directory
SetupProxyStart ==
    /\ module = "setup_gateway"
    /\ run.pc = "discovered"
    /\ run' = [run EXCEPT !.pc = "proxied", !.proxy_cmd = ProxyLauncher(run.files)]
    /\ UNCHANGED <<module, config, agent_tools, dpc, idx, att, all_tools, cpc, call,
                   open_sessions>>

\* the agent of agent_with_official_aws_mcp.py starts the same directory
SetupAgentStart ==
    /\ module = "setup_gateway"
    /\ run.pc = "proxied"
    /\ run' = [run EXCEPT !.pc = "started", !.agent_cmd = Launcher(run.files)]
    /\ UNCHANGED <<module, config, agent_tools, dpc, idx, att, all_tools, cpc, call,
                   open_sessions>>

\* the next item of os.listdir
SetupNextItem ==
    /\ module = "setup_gateway"
    /\ run.pc \in {"skipped", "started"}
    /\ run' = [pc |-> "idle"]
    /\ UNCHANGED <<module, config, agent_tools, dpc, idx, att, all_tools, cpc, call,
                   open_sessions>>

(***************************************************************************)
(* module "filesystem": mcp-servers/filesystem/server.py.  A path is the   *)
(* sequence of its components, a component a sequence of atoms, so that    *)
(* "data2" is "data" followed by "2"; its text puts "/" before each        *)
(* component.  Paths are absolute.                                         *)
(***************************************************************************)
MaxDepth == 3

Components == {<<"app">>, <<"data">>, <<"data", "2">>, <<"etc">>, <<"..">>}
Paths == UNION {[1..k -> Components] : k \in 0..MaxDepth}

AppData == << <<"app">>, <<"data">> >>

\* os.getenv('ALLOWED_PATHS', '/app/data').split(':')
AllowedPathsValues == {<<AppData>>, <<AppData, << <<"etc">> >> >>}

RECURSIVE NormPath(_, _)
NormPath(done, rest) ==
    IF rest = <<>> THEN done
    ELSE IF Head(rest) = <<"..">>
         THEN NormPath(IF done = <<>> THEN <<>> ELSE SubSeq(done, 1, Len(done) - 1),
                       Tail(rest))
         ELSE NormPath(Append(done, Head(rest)), Tail(rest))

\* os.path.abspath of an absolute path: ".." components resolved
AbsPath(path) == NormPath(<<>>, path)

RECURSIVE PathText(_)
PathText(path) ==
    IF path = <<>> THEN <<>> ELSE <<"/">> \o Head(path) \o PathText(Tail(path))

\* the str of a path: "/" for the root
Text(path) == IF path = <<>> THEN <<"/">> ELSE PathText(path)

\* str.startswith
StartsWith(s, prefix) ==
    Len(prefix) <= Len(s) /\ SubSeq(s, 1, Len(prefix)) = prefix

\* any(abs_path.startswith(allowed) for allowed in ALLOWED_PATHS)
is_path_allowed(path, ALLOWED_PATHS) ==
    \E i \in 1..Len(ALLOWED_PATHS) :
      StartsWith(Text(AbsPath(path)), Text(ALLOWED_PATHS[i]))

FsTools == {"read_file", "list_directory", "file_info"}
FsError(tool) ==
    CASE tool = "read_file" -> "Error reading file"
      [] tool = "list_directory" -> "Error listing directory"
      [] OTHER -> "Error getting file info"

\* a tool is called: if not is_path_allowed(path)
FsCall(tool, path, exists) ==
    /\ module = "filesystem"
    /\ run.pc = "idle"
    /\ run' = [run EXCEPT !.pc = IF is_path_allowed(path, run.ALLOWED_PATHS)
                                 THEN "try" ELSE "denied",
                          !.tool = tool, !.path = path, !.exists = exists,
                          !.touched = {}, !.result = ""]
    /\ UNCHANGED <<module, config, agent_tools, dpc, idx, att, all_tools, cpc, call,
                   open_sessions>>

\* return "Access denied: Path not allowed"
FsDeny ==
    /\ module = "filesystem"
    /\ run.pc = "denied"
    /\ run' = [run EXCEPT !.pc = "returned", !.result = "Access denied: Path not allowed"]
    /\ UNCHANGED <<module, config, agent_tools, dpc, idx, att, all_tools, cpc, call,
                   open_sessions>>

\* the try block: open / os.listdir / os.stat of the path as given, which the
\* operating system resolves to the same file as abspath
FsAccess ==
    /\ module = "filesystem"
    /\ run.pc = "try"
    /\ run' = IF run.exists
              THEN [run EXCEPT !.pc = "returned", !.touched = {AbsPath(run.path)},
                               !.result = "content"]
              ELSE [run EXCEPT !.pc = "returned", !.result = FsError(run.tool)]
    /\ UNCHANGED <<module, config, agent_tools, dpc, idx, att, all_tools, cpc, call,
                   open_sessions>>

\* the server takes the next request
FsNextRequest ==
    /\ module = "filesystem"
    /\ run.pc = "returned"
    /\ run' = [run EXCEPT !.pc = "idle"]
    /\ UNCHANGED <<module, config, agent_tools, dpc, idx, att, all_tools, cpc, call,
                   open_sessions>>

(***************************************************************************)
(* The specification of the entry points.                                  *)
(***************************************************************************)
HandlerModules == {"agent", "api_gateway", "setup_gateway", "filesystem"}

HandlerInit ==
    /\ module \in HandlerModules
    /\ config = [GATEWAY_URL |-> None, GATEWAY_TOKEN |-> None,
                 aws_mcp_config |-> ConfigFile(FALSE, <<>>),
                 gateway_config |-> CHOOSE g \in GatewayConfigs : ~g.readable]
    /\ agent_tools = <<>>
    /\ dpc = "idle"
    /\ idx = 1
    /\ att = <<>>
    /\ all_tools = <<>>
    /\ cpc = "idle"
    /\ call = <<>>
    /\ open_sessions = 0
    /\ run \in CASE module = "agent" -> {AgentRun}
               [] module = "filesystem" ->
                    {[pc |-> "idle", ALLOWED_PATHS |-> a, tool |-> "", path |-> <<>>,
                      exists |-> FALSE, touched |-> {}, result |-> ""] :
                       a \in AllowedPathsValues}
               [] OTHER -> {[pc |-> "idle"]}

HandlerNext ==
    \/ \E context \in Contexts : SessionInvoke(context)
    \/ OnMessageAdded
    \/ SessionReturn
    \/ \E event \in Events, env \in Environments : LambdaEnter(event, env)
    \/ LambdaParse
    \/ LambdaClient
    \/ LambdaTry
    \/ LambdaNext
    \/ \E files \in SUBSET LauncherFiles : SetupDiscover(files)
    \/ SetupProxyStart
    \/ SetupAgentStart
    \/ SetupNextItem
    \/ \E tool \in FsTools, path \in Paths, exists \in BOOLEAN : FsCall(tool, path, exists)
    \/ FsDeny
    \/ FsAccess
    \/ FsNextRequest

HandlerSpec == HandlerInit /\ [][HandlerNext]_vars

(***************************************************************************)
(* Vocabulary of the properties.                                           *)
(***************************************************************************)
\* t is s + "_" + something
IsPrefixedBy(t, s) ==
    Len(t) >= Len(s) + 1 /\ SubSeq(t, 1, Len(s) + 1) = s \o <<Sep>>

\* what follows s + "_" in t
Suffix(t, s) == SubSeq(t, Len(s) + 2, Len(t))

NamespaceDispatchers == {"aws", "external"}

\* the registry the dispatcher of the running module looks servers up in
DispatchRegistry ==
    IF module = "aws" THEN AWS_MCP_SERVERS ELSE MCP_SERVERS(config)

InCall == module \in NamespaceDispatchers /\ cpc # "idle"

\* the unavailable result of the running module for server_name
Unavailable(server_name) ==
    IF module = "aws" THEN NotFound(server_name) ELSE NotAvailable(server_name)

\* the (server, operation) pairs of the attempts of the pass that ended without error
OkPairs ==
    UNION { {<<i, k>> : k \in 1..Len(att[i].listed)} :
            i \in {j \in 1..Len(Reg) : att[j].phase = "ok"} }

PairName(p) == Collected(Reg[p[1]].name, att[p[1]].listed)[p[2]]

(***************************************************************************)
(* C1.  Round trip of the namespacing rule: a name built as                *)
(* server + "_" + original for a server of the dispatcher's registry is    *)
(* parsed by the dispatcher back to (server, original).                    *)
(***************************************************************************)
C1_RoundTrip ==
    InCall =>
      \A i \in 1..Len(DispatchRegistry) :
        LET s == DispatchRegistry[i].name IN
        IsPrefixedBy(call.tool_name, s) =>
          /\ call.server_name = s
          /\ call.original_tool_name = Suffix(call.tool_name, s)

(***************************************************************************)
(* C2.  A name that does not resolve to a registered server is answered    *)
(* with the unavailable result string; the dispatcher never raises, also   *)
(* for a name without underscore.                                          *)
(***************************************************************************)
C2_UnresolvedIsUnavailable ==
    (/\ InCall /\ cpc = "done"
     /\ \A i \in 1..Len(DispatchRegistry) :
           /\ ~IsPrefixedBy(call.tool_name, DispatchRegistry[i].name)
           /\ call.tool_name # DispatchRegistry[i].name)
    => /\ call.outcome.kind = "return"
       /\ call.outcome.value = Unavailable(call.server_name)

(***************************************************************************)
(* C3.  When a pass returns, the merged list holds exactly one entry       *)
(* server_name for each pair returned by a server whose attempt succeeded, *)
(* and nothing else.                                                       *)
(***************************************************************************)
C3_ExactlyThePairs ==
    dpc = "returned" =>
      \A name \in Range(all_tools) \cup {PairName(p) : p \in OkPairs} :
         Count(all_tools, name) = Cardinality({p \in OkPairs : PairName(p) = name})

(***************************************************************************)
(* C4.  Partial-failure isolation: when a pass returns, the full tool list *)
(* of every server whose attempt succeeded is in the result, wherever the  *)
(* failing servers stand in the registry, and the result is empty only if  *)
(* every server failed, was skipped or advertised no tools.                *)
(***************************************************************************)
C4_FailureIsolation ==
    dpc = "returned" =>
      /\ \A p \in OkPairs : Count(all_tools, PairName(p)) >= 1
      /\ all_tools = <<>> =>
           \A i \in 1..Len(Reg) : att[i].phase # "ok" \/ att[i].listed = <<>>

\* a pass returned the tools of a server that stands after a failed one
C4_Witness ==
    /\ dpc = "returned" /\ Len(att) >= 2
    /\ att[1].phase = "failed"
    /\ \E i \in 2..Len(att) : att[i].phase = "ok" /\ att[i].listed # <<>>
    /\ \E i \in 2..Len(att) : att[i].phase = "failed"

(***************************************************************************)
(* C5.  Every dispatcher call ends with a result string handed to the      *)
(* caller; no call ends with an exception.                                 *)
(***************************************************************************)
C5_AlwaysAResult ==
    cpc = "done" => call.outcome.kind = "return"

(***************************************************************************)
(* C6.  A transport or protocol error raised inside a dispatch is returned *)
(* as a result string that carries the server identifier, the operation    *)
(* name and the cause.                                                     *)
(***************************************************************************)
C6_ErrorCarriesServerOperationCause ==
    (cpc = "done" /\ call.errors # <<>>) =>
      /\ call.outcome.kind = "return"
      /\ Contains(call.outcome.value, call.server_name)
      /\ Contains(call.outcome.value, call.original_tool_name)
      /\ Contains(call.outcome.value, call.errors[Len(call.errors)])

\* C6 as amended: the error is returned as the fixed prefix of the
\* dispatcher followed by the message of the exception that reached the
\* except clause
C6_ErrorCarriesCause ==
    (cpc = "done" /\ call.errors # <<>>) =>
      /\ call.outcome.kind = "return"
      /\ call.outcome.value =
           (IF module = "gateway" THEN <<"Gateway tool execution error: ">>
            ELSE <<"Tool execution error: ">>) \o call.errors[Len(call.errors)]

\* a remote call failed and its error came back as the result
C6_Witness ==
    /\ cpc = "done"
    /\ call.errors = << <<"call failed">> >>
    /\ call.outcome.kind = "return"
    /\ ~Contains(call.outcome.value, call.server_name)

(***************************************************************************)
(* C7.  execute_aws_mcp_tool routes server_id + "_" + name, for a          *)
(* registered server_id of two segments, only to that server's URL and     *)
(* calls the tool by the original name with the caller's arguments.        *)
(***************************************************************************)
C7_RoutesWithOriginalName ==
    (module = "aws" /\ cpc # "idle") =>
      \A i \in 1..Len(AWS_MCP_SERVERS) :
        LET s == AWS_MCP_SERVERS[i] IN
        (Len(Split(s.name)) = 2 /\ IsPrefixedBy(call.tool_name, s.name)) =>
          /\ call.server_name = s.name /\ call.url = s.url
          /\ \A k \in 1..Len(call.opened) : call.opened[k].url = s.url
          /\ \A k \in 1..Len(call.calls) :
               /\ call.calls[k].url = s.url
               /\ call.calls[k].name = Suffix(call.tool_name, s.name)
               /\ call.calls[k].arguments = call.arguments

\* a tool whose original name contains underscores was called on aws_eks
C7_Witness ==
    /\ module = "aws" /\ cpc = "close"
    /\ call.tool_name = W(<<"aws", "eks", "x", "x">>)
    /\ Len(call.calls) = 1
    /\ call.calls[1].name = W(<<"x", "x">>)
    /\ call.arguments.keys = {"months"}

ParsedServer(tool_name) ==
    IF module = "aws"
    THEN Split(tool_name)[1] \o <<Sep>> \o Split(tool_name)[2]
    ELSE Split(tool_name)[1]

Parses(tool_name) == module = "aws" => Len(Split(tool_name)) >= 2

Registered(server_name) ==
    \E i \in 1..Len(DispatchRegistry) :
       /\ DispatchRegistry[i].name = server_name
       /\ DispatchRegistry[i].url # None

C9_CollisionAborts ==
    dpc = "returned" =>
      \A j, k \in 1..Len(all_tools) : all_tools[j] = all_tools[k] => j = k

CallInProgress ==
    \/ \E i \in 1..Len(att) : att[i].phase \in InFlight \cup Hung
    \/ cpc \notin {"idle", "done"}

C11_SessionsScopedToCall ==
    /\ ~CallInProgress => open_sessions = 0
    /\ open_sessions \in {0, 1}

\* an attempt whose close raised and an attempt whose handshake failed have
\* both ended and the loop stands before the next entry
C11_Witness ==
    /\ ~CallInProgress /\ open_sessions = 0
    /\ dpc = "running" /\ Len(att) >= 3
    /\ att[1].phase = "failed" /\ att[1].got
    /\ att[2].phase = "failed" /\ ~att[2].got
    /\ att[3].phase = "pending"

(***************************************************************************)
(* C12.  Bounded response of dispatch: a dispatch whose server accepted    *)
(* the connection and then never answers the handshake or call_tool        *)
(* eventually hands a result string to the caller.                         *)
(***************************************************************************)
C12_DispatchReturns ==
    (cpc = "hung") ~> (cpc = "done" /\ call.outcome.kind = "return")

(***************************************************************************)
(* C13.  Aggregation terminates: a pass in which a registered server never *)
(* answers the connect, initialize or list_tools step still completes and  *)
(* returns its list.                                                       *)
(***************************************************************************)
C13_AggregationTerminates ==
    (dpc = "running" /\ \E i \in 1..Len(att) : att[i].phase \in Hung)
    ~> (dpc = "returned")

C15_SupersededWholesale ==
    [][(dpc = "returned" /\ dpc' = "idle") => agent_tools' = all_tools]_vars

(***************************************************************************)
(* C16.  Gateway payload pass-through: a gateway tool T, with or without   *)
(* "_proxy" in its name, invoked with the payload {tool_name: t,           *)
(* arguments: a} leads to at most one call_tool, exactly one once the      *)
(* handshake has succeeded; that call goes to the gateway URL with name T  *)
(* and the payload {tool_name: t, arguments: a} unchanged, and every       *)
(* session of the dispatch is opened at the gateway URL.                   *)
(***************************************************************************)
\* the gateway endpoint of the persisted configuration
GatewayUrl == LoadConfig(config.gateway_config).gateway_url

C16_PayloadPassThrough ==
    (module = "gateway" /\ cpc # "idle"
     /\ call.arguments.keys = {"tool_name", "arguments"}) =>
      /\ Len(call.calls) <= 1
      /\ Len(call.opened) <= 1
      /\ (cpc = "close" /\ call.errors = <<>>) => Len(call.calls) = 1
      /\ \A k \in 1..Len(call.opened) : call.opened[k].url = GatewayUrl
      /\ \A k \in 1..Len(call.calls) :
           /\ call.calls[k].url = GatewayUrl
           /\ call.calls[k].name = call.tool_name
           /\ call.calls[k].name # call.arguments.tool_name
           /\ call.calls[k].arguments = call.arguments

\* a proxy tool was called with the wrapped payload
C16_Witness ==
    /\ module = "gateway" /\ cpc = "close"
    /\ call.tool_name = W(<<"cdk", "proxy">>)
    /\ call.arguments.keys = {"tool_name", "arguments"}
    /\ Len(call.calls) = 1
    /\ call.calls[1].arguments.arguments = Months

(***************************************************************************)
(* C17.  Gateway adapter fallback: a proxy operation, one whose name ends  *)
(* in "_proxy", invoked without tool_name forwards as tool_name its own    *)
(* name with the final "_proxy" removed and nothing else changed; the      *)
(* forwarded payload has exactly the keys tool_name and arguments, and its *)
(* arguments hold no tool_name key.                                        *)
(***************************************************************************)
\* name ends in "_proxy"
IsProxyOperation(name) ==
    Len(name) >= 2 /\ SubSeq(name, Len(name) - 1, Len(name)) = <<Sep, "proxy">>

\* name without its last two atoms
StripSuffix(name) == SubSeq(name, 1, Len(name) - 2)

C17_FallbackStripsSuffix ==
    (/\ module = "gateway" /\ cpc # "idle"
     /\ IsProxyOperation(call.tool_name)
     /\ "tool_name" \notin call.arguments.keys) =>
      \A k \in 1..Len(call.calls) :
        LET sent == call.calls[k].arguments IN
        /\ sent.keys = {"tool_name", "arguments"}
        /\ sent.tool_name = StripSuffix(call.tool_name)
        /\ "tool_name" \notin sent.arguments.keys

(***************************************************************************)
(* C18.  A dispatch whose remote call returned and whose session closed    *)
(* without error returns the fixed marker when the response has no         *)
(* content, and otherwise the text of the first content element; the       *)
(* first element is read only when there is one, so no IndexError arises.  *)
(* (A first element that is not a text element has no text attribute: the  *)
(* AttributeError is answered as the error result of C6.)                  *)
(***************************************************************************)
\* the empty-result marker of the dispatcher of the running module
Marker ==
    IF module = "gateway" THEN <<"Tool executed successfully">> ELSE <<"No result">>

C19_StdioFailureIsolation ==
    module = "official" =>
      /\ dpc # "raised"
      /\ dpc = "returned" => \A p \in OkPairs : Count(all_tools, PairName(p)) >= 1

(***************************************************************************)
(* C20.  Missing configuration is recoverable.  With aws_mcp_config.json   *)
(* or official_mcp_gateway_config.json absent the pass returns no tools    *)
(* and attempts no connection; a registry entry with no URL is never       *)
(* connected to while the pass goes on; a gateway dispatch without         *)
(* configuration returns "Gateway not configured" and opens no session;    *)
(* and in each case the pass does not raise and invoke goes on to pass the *)
(* prompt to the agent.                                                    *)
(***************************************************************************)
\* the persisted document the running module reads is absent
ConfigAbsent ==
    \/ module = "official" /\ ~config.aws_mcp_config.exists
    \/ module = "gateway" /\ ~config.gateway_config.readable

\* the registry entries of the running pass that have no URL
NoUrlEntries == {i \in 1..Len(att) : module = "external" /\ Reg[i].url = None}

C20_MissingConfigRecoverable ==
    /\ (ConfigAbsent /\ dpc # "idle") =>
          /\ dpc = "returned" /\ all_tools = <<>>
          /\ att = <<>> /\ open_sessions = 0
          /\ ENABLED InvokeFinish
    /\ \A i \in NoUrlEntries :
          /\ att[i].phase \in {"pending", "skipped"}
          /\ dpc # "raised"
          /\ dpc = "returned" => att[i].phase = "skipped" /\ ENABLED InvokeFinish
    /\ (ConfigAbsent /\ module = "gateway" /\ cpc # "idle") =>
          /\ cpc = "done"
          /\ call.outcome = Return(<<"Gateway not configured">>)
          /\ call.opened = <<>> /\ call.calls = <<>>

\* the pass of the gateway variant has returned without its configuration
C20_Witness ==
    /\ module = "gateway" /\ ConfigAbsent
    /\ dpc = "returned" /\ all_tools = <<>> /\ att = <<>>

(***************************************************************************)
(* C21.  The session connector never raises past its own boundary: every   *)
(* failure of connect_to_mcp_server, connect_to_aws_mcp_server and         *)
(* connect_to_gateway, also one met while reading the connection           *)
(* descriptor, ends in the empty list being returned.  An exception that   *)
(* ends a pass therefore never comes from a connector: the only one left   *)
(* is that of get_all_aws_mcp_tools reading an entry without a path.       *)
(***************************************************************************)
C21_ConnectorNeverRaises ==
    dpc = "raised" =>
      /\ module = "official"
      /\ idx <= Len(Reg) /\ Reg[idx].path = None

(***************************************************************************)
(* C22.  No automatic retry: within a pass the attempt of a registry entry *)
(* is started once, from pending, and an attempt that has settled or hangs *)
(* is not taken up again; a dispatch opens at most one session and issues  *)
(* at most one call_tool, whether it succeeds or fails.                    *)
(***************************************************************************)
C22_NoRetry ==
    [][/\ Len(att') = Len(att) =>
            \A i \in 1..Len(att) :
              /\ (att'[i].phase = "connect" /\ att[i].phase # "connect")
                    => att[i].phase = "pending"
              /\ att[i].phase \in Settled \cup Hung => att'[i] = att[i]
       /\ cpc' # "idle" => Len(call'.opened) <= 1 /\ Len(call'.calls) <= 1
       /\ (cpc = "done" /\ cpc' # "done") => cpc' = "idle"]_vars

\* a dispatch whose session failed to close has returned after one session
\* and one call
C22_Witness ==
    /\ cpc = "done"
    /\ call.errors = << <<"close failed">> >>
    /\ Len(call.opened) = 1 /\ Len(call.calls) = 1

(***************************************************************************)
(* C23.  Credential-per-server scoping in agent_with_external_mcp: the     *)
(* Authorization header of a connection, in discovery and in dispatch, is  *)
(* built from the auth value of the server connected to.  A server with no *)
(* auth gets no Authorization header, so it never gets the bearer token    *)
(* of another server, wherever the servers stand and whatever was called   *)
(* before.                                                                 *)
(***************************************************************************)
\* the headers that may be sent to registry entry e
OwnHeaders(e) ==
    IF e.auth = None THEN {} ELSE {<<"Authorization", <<"Bearer ", e.auth>>>>}

C23_CredentialPerServer ==
    module = "external" =>
      /\ \A i \in 1..Len(att) :
            att[i].phase \notin {"pending", "skipped"} => att[i].headers = OwnHeaders(Reg[i])
      /\ cpc # "idle" =>
            \A k \in 1..Len(call.opened) :
              \E i \in 1..Len(Reg) :
                /\ Reg[i].name = call.server_name
                /\ Reg[i].url = call.opened[k].url
                /\ call.opened[k].headers = OwnHeaders(Reg[i])

\* the gateway entry has been connected to with its token, and after it a
\* session to a server without auth is open in a dispatch
C23_Witness ==
    /\ module = "external" /\ config.GATEWAY_TOKEN # None
    /\ Len(agent_tools) >= 3
    /\ cpc = "call_tool" /\ call.server_name = W(<<"database">>)
    /\ call.opened[1].headers = {}

(***************************************************************************)
(* C24.  Concurrent dispatches are independent: in every interleaving of   *)
(* the calls of a turn, the position, the locals and the outcome of each   *)
(* call are ones the same call reaches when it runs alone, and each call   *)
(* that is between connect and close holds a session of its own.           *)
(***************************************************************************)
RECURSIVE Closure(_, _)
\* the positions and locals reachable from those of S in at most n steps
Closure(S, n) ==
    IF n = 0 THEN S
    ELSE Closure(S \cup { [pc |-> y.pc, f |-> y.f] :
                            y \in UNION { DispatchStep(x.pc, x.f) : x \in S } }, n - 1)

\* what the dispatcher called alone with tool_name and arguments can reach
SoloFrames(tool_name, arguments) ==
    LET r == Resolve(Frame(tool_name, arguments)) IN
    Closure({ [pc |-> r.pc, f |-> r.f] }, 4)

HoldsSession(pc, f) == pc \in {"initialize", "call_tool", "close", "hung"}

C24_IndependentOfInterleaving ==
    /\ \A s \in Slots :
          cpc[s] # "idle" =>
            [pc |-> cpc[s], f |-> call[s]]
              \in SoloFrames(call[s].tool_name, call[s].arguments)
    /\ open_sessions = Cardinality({s \in Slots : HoldsSession(cpc[s], call[s])})

\* two calls to different servers overlapped and were answered differently
C24_Witness ==
    /\ cpc[1] = "done" /\ cpc[2] = "close"
    /\ open_sessions = 1
    /\ call[1].url # call[2].url
    /\ Len(call[1].calls) = 1 /\ Len(call[2].calls) = 1
    /\ call[1].response # call[2].response
    /\ call[1].outcome # Caught(call[2].pending)

(***************************************************************************)
(* C25.  One wrapper per discovered gateway tool, each bound to its own    *)
(* name: when invoke has loaded k tools agent.tools holds k wrappers, the  *)
(* i-th named after the i-th tool, and a call of the i-th wrapper runs     *)
(* execute_tool with the name of the i-th tool and the caller's keyword    *)
(* arguments.                                                              *)
(***************************************************************************)
C25_WrapperPerTool ==
    [][module = "gateway" =>
         /\ (dpc = "returned" /\ dpc' = "idle" /\ all_tools # <<>>) =>
               /\ Len(agent_tools') = Len(all_tools)
               /\ \A i \in 1..Len(all_tools) : agent_tools'[i] = all_tools[i]
         /\ (cpc = "idle" /\ cpc' # "idle" /\ call'.via # <<>>) =>
               /\ call'.via[1] \in 1..Len(agent_tools)
               /\ call'.tool_name = agent_tools[call'.via[1]]
               /\ call'.arguments = call'.via[2]
         /\ (cpc' # "idle" /\ call'.via # <<>>) =>
               \A k \in 1..Len(call'.calls) :
                 call'.calls[k].name = agent_tools[call'.via[1]]]_vars

\* the first of two wrappers was called and its tool was called on the gateway
C25_Witness ==
    /\ module = "gateway" /\ Len(agent_tools) = 2
    /\ cpc = "close" /\ call.via # <<>> /\ call.via[1] = 1
    /\ call.via[2].keys = {"months"}
    /\ Len(call.calls) = 1
    /\ call.calls[1].name = W(<<"cdk", "proxy">>)

(***************************************************************************)
(* C26.  A server whose discovery attempt ended in failure contributes no  *)
(* entry to the merged list: when the pass returns, no name of the list    *)
(* carries the prefix of a server whose attempt failed at any step, the    *)
(* close of its session after list_tools included.                         *)
(***************************************************************************)
C26_FailedServerContributesNothing ==
    (module \in {"aws", "external"} /\ dpc = "returned") =>
      \A i \in 1..Len(Reg) :
        att[i].phase = "failed" =>
          \A k \in 1..Len(all_tools) : ~IsPrefixedBy(all_tools[k], Reg[i].name)

(***************************************************************************)
(* C27.  Session identity per invocation: every message of an invocation   *)
(* is stored under the session id of that invocation's context, or under   *)
(* "default" when the context carries no session_id, whatever the earlier  *)
(* invocations set.                                                        *)
(***************************************************************************)
C27_SessionOfOwnContext ==
    (module = "agent" /\ run.pc = "agent") =>
      \A k \in 1..Len(run.stored) :
        run.stored[k] = (IF run.context.has_session_id
                         THEN run.context.session_id ELSE "default")

(***************************************************************************)
(* C28.  lambda_handler always answers: whatever the event, it never       *)
(* raises, and what it returns has statusCode 200 with a response field or *)
(* statusCode 500 with an error field.                                     *)
(***************************************************************************)
C28_HandlerAlwaysAnswers ==
    module = "api_gateway" =>
      /\ run.pc # "raised"
      /\ run.pc = "returned" =>
            \/ run.answer.statusCode = 200 /\ run.answer.key = "response"
            \/ run.answer.statusCode = 500 /\ run.answer.key = "error"

(***************************************************************************)
(* C29.  Launcher selection agrees across components: for a discovered     *)
(* server directory, the command of the agent's stdio connector and the    *)
(* command of the generated Lambda proxy are the same, and the type        *)
(* discover_mcp_servers recorded is the runtime of that command.           *)
(***************************************************************************)
C29_LaunchersAgree ==
    (module = "setup_gateway" /\ run.pc = "started") =>
      /\ run.agent_cmd = run.proxy_cmd
      /\ run.type = run.agent_cmd[1]

\* a path lies inside a directory: the directory's components begin it
Inside(path, dir) ==
    Len(dir) <= Len(path) /\ SubSeq(path, 1, Len(dir)) = dir

(***************************************************************************)
(* C30.  Filesystem tool confinement: a call whose path resolves outside   *)
(* every allowed directory returns "Access denied: Path not allowed" and   *)
(* touches no file, a sibling such as /app/data2 included.                 *)
(***************************************************************************)
C30_Confined ==
    (/\ module = "filesystem" /\ run.pc = "returned"
     /\ \A i \in 1..Len(run.ALLOWED_PATHS) :
          ~Inside(AbsPath(run.path), run.ALLOWED_PATHS[i])) =>
      /\ run.result = "Access denied: Path not allowed"
      /\ run.touched = {}

====
